---- MODULE Spec2Model ----
(***************************************************************************)
(* A model of the cf block-field game (bevy): the ray-box picking kernel,  *)
(* the camera settings file, and the per-frame systems that drive move     *)
(* mode, possession mode, the item slots, the hover highlight and the      *)
(* camera.                                                                 *)
(*                                                                         *)
(* Numbers.  Lengths are integers in world units.  f32 results that can be *)
(* infinite or NaN (ray_box_intersection divides by direction components)  *)
(* are the records Fin(n, d), PInf, NInf, NaN.  Settings values are held   *)
(* in thousandths (0.003 is 3, 10.0 is 10000).                             *)
(***************************************************************************)
EXTENDS Integers, Sequences, FiniteSets, TLC

\* ------------------------------------------------------------------------
\* Bounds of the model (not program constants)
\* ------------------------------------------------------------------------

\* ray_box_intersection is checked for ray origins in -MaxCoord..MaxCoord on
\* each axis, against boxes of half extent 1..MaxHalf centred at the origin
\* of the grid.
MaxCoord == 2
MaxHalf == 1

\* ------------------------------------------------------------------------
\* f32 values: finite rationals n/d (d > 0), the two infinities and NaN
\* ------------------------------------------------------------------------

Fin(n, d) == [k |-> "fin", n |-> IF d < 0 THEN -n ELSE n,
                           d |-> IF d < 0 THEN -d ELSE d]
PInf == [k |-> "pinf", n |-> 0, d |-> 1]
NInf == [k |-> "ninf", n |-> 0, d |-> 1]
NaN == [k |-> "nan", n |-> 0, d |-> 1]
Zero == Fin(0, 1)

\* a < b on f32: false as soon as one side is NaN
FLt(a, b) ==
    /\ a.k # "nan"
    /\ b.k # "nan"
    /\ CASE a.k = "ninf" -> b.k # "ninf"
         [] a.k = "pinf" -> FALSE
         [] OTHER -> CASE b.k = "pinf" -> TRUE
                       [] b.k = "ninf" -> FALSE
                       [] OTHER -> a.n * b.d < b.n * a.d

\* a <= b on f32
FLe(a, b) == a.k # "nan" /\ b.k # "nan" /\ ~FLt(b, a)

\* f32::max of the standard library: a NaN operand is ignored
F32Max(a, b) ==
    IF a.k = "nan" THEN b
    ELSE IF b.k = "nan" THEN a
    ELSE IF FLt(a, b) THEN b ELSE a

\* f32::min of the standard library: a NaN operand is ignored
F32Min(a, b) ==
    IF a.k = "nan" THEN b
    ELSE IF b.k = "nan" THEN a
    ELSE IF FLt(b, a) THEN b ELSE a

\* The component-wise minimum and maximum of glam's Vec3.  glam documents
\* that their NaN behaviour is not that of IEEE minNum/maxNum and depends on
\* the build: sem = "ieee" is f32::min/f32::max, sem = "select" is the
\* comparison "if a < b { a } else { b }" (resp. a > b).
FloatSems == {"ieee", "select"}
GlamMin(a, b, sem) == IF sem = "ieee" THEN F32Min(a, b) ELSE IF FLt(a, b) THEN a ELSE b
GlamMax(a, b, sem) == IF sem = "ieee" THEN F32Max(a, b) ELSE IF FLt(b, a) THEN a ELSE b

\* Vec3::max_element and Vec3::min_element: x op (y op z)
MaxElement(v, sem) == GlamMax(v[1], GlamMax(v[2], v[3], sem), sem)
MinElement(v, sem) == GlamMin(v[1], GlamMin(v[2], v[3], sem), sem)

\* ------------------------------------------------------------------------
\* ray_box_intersection (game_logic.rs)
\* ------------------------------------------------------------------------

Axes == 1..3

\* A ray: origin, direction (an integer vector, not all zero; Dir3 is that
\* vector normalised, which scales every t below by the same positive
\* factor), and negz: whether the zero components of the direction are -0.0.
Ray(o, dir, negz) == [origin |-> o, dir |-> dir, negz |-> negz]

\* One component of (bound - ray.origin) * inv_dir, inv_dir = 1 / ray_dir:
\* 1 / 0.0 is +inf, 1 / -0.0 is -inf, and 0 * inf is NaN.
SlabT(bound, o, dc, negz) ==
    IF dc # 0 THEN Fin(bound - o, dc)
    ELSE IF bound - o = 0 THEN NaN
    ELSE IF (bound - o > 0) = (~negz) THEN PInf ELSE NInf

\* Some(t) and None
SomeT(t) == [some |-> TRUE, t |-> t]
NoneT == [some |-> FALSE, t |-> Zero]

ray_box_intersection(ray, box_center, half_extents, sem) ==
    LET min == [i \in Axes |-> box_center[i] - half_extents[i]]
        max == [i \in Axes |-> box_center[i] + half_extents[i]]
        t_min == [i \in Axes |-> SlabT(min[i], ray.origin[i], ray.dir[i], ray.negz)]
        t_max == [i \in Axes |-> SlabT(max[i], ray.origin[i], ray.dir[i], ray.negz)]
        t_enter == MaxElement([i \in Axes |-> GlamMin(t_min[i], t_max[i], sem)], sem)
        t_exit == MinElement([i \in Axes |-> GlamMax(t_min[i], t_max[i], sem)], sem)
    IN  IF FLe(t_enter, t_exit) /\ FLe(Zero, t_exit)
        THEN SomeT(F32Max(t_enter, Zero))
        ELSE NoneT

\* ------------------------------------------------------------------------
\* CameraSettings and its JSON file (resources.rs)
\* ------------------------------------------------------------------------

\* The number of settings-button presses explored after startup.
MaxPresses == 4

Fields == <<"mouse_sensitivity", "keyboard_sensitivity", "movement_speed", "zoom_speed">>
FieldSet == {Fields[i] : i \in 1..Len(Fields)}

\* impl Default for CameraSettings: 0.003, 0.02, 10.0, 50.0
DefaultSettings ==
    [mouse_sensitivity |-> 3, keyboard_sensitivity |-> 20,
     movement_speed |-> 10000, zoom_speed |-> 50000]

\* A JSON number token as serde_json writes an f32: the integer part and the
\* fraction digits, the fraction never empty and without trailing zeros
\* ("10.0", "0.003", "0.02").
NumTok(int, frac) == [num |-> TRUE, int |-> int, frac |-> frac]
\* A JSON value that is not a number (a string, null, ...)
BadTok == [num |-> FALSE, int |-> 0, frac |-> <<>>]

RECURSIVE StripZeros(_)
StripZeros(ds) ==
    IF Len(ds) > 1 /\ ds[Len(ds)] = 0 THEN StripZeros(SubSeq(ds, 1, Len(ds) - 1)) ELSE ds

FormatF32_unpadded(v) ==
    NumTok(v \div 1000, StripZeros(<<v % 1000>>))

\* The token written for the value v (in thousandths)
FormatF32(v) ==
    NumTok(v \div 1000, StripZeros(<<(v % 1000) \div 100, ((v % 1000) \div 10) % 10, v % 10>>))

\* The value (in thousandths) read from a number token
ParseF32(tok) ==
    LET digit(i) == IF i <= Len(tok.frac) THEN tok.frac[i] ELSE 0
    IN  tok.int * 1000 + digit(1) * 100 + digit(2) * 10 + digit(3)

Member(key, val) == [key |-> key, val |-> val]

\* serde_json::to_string_pretty(self): one member per field, in declaration order
to_string_pretty(s) ==
    [object |-> TRUE, members |-> [i \in 1..Len(Fields) |-> Member(Fields[i], FormatF32(s[Fields[i]]))]]

\* The derived Deserialize of CameraSettings, run over the members of a JSON
\* object: an unknown key is skipped, a known key seen twice is an error
\* (duplicate field), a value that is no number is an error, and a field
\* never seen is an error (missing field).  acc maps the fields seen so far.
ParseErr == [ok |-> FALSE, value |-> DefaultSettings]
RECURSIVE VisitMap(_, _, _)
VisitMap(members, i, acc) ==
    IF i > Len(members)
    THEN IF DOMAIN acc = FieldSet THEN [ok |-> TRUE, value |-> acc] ELSE ParseErr
    ELSE LET m == members[i]
         IN  IF m.key \notin FieldSet THEN VisitMap(members, i + 1, acc)
             ELSE IF m.key \in DOMAIN acc \/ ~m.val.num THEN ParseErr
             ELSE VisitMap(members, i + 1, acc @@ (m.key :> ParseF32(m.val)))

\* serde_json::from_str::<CameraSettings>(&json)
from_str(text) ==
    IF ~text.object THEN ParseErr ELSE VisitMap(text.members, 1, <<>>)

\* The settings file: absent (or unreadable), or present with a text
NoFile == [exists |-> FALSE, text |-> [object |-> FALSE, members |-> <<>>]]
FileOf(text) == [exists |-> TRUE, text |-> text]
Truncated == FileOf([object |-> FALSE, members |-> <<>>])

\* CameraSettings::load_from_file: read_to_string(path)?, then from_str(..)?
load_from_file(f) ==
    IF ~f.exists THEN ParseErr ELSE from_str(f.text)

load_or_default_per_field(f) ==
    LET ms == f.text.members
        has(k) == \E i \in 1..Len(ms) : ms[i].key = k /\ ms[i].val.num
        first(k) == CHOOSE i \in 1..Len(ms) :
                        /\ ms[i].key = k /\ ms[i].val.num
                        /\ \A j \in 1..(i - 1) : ~(ms[j].key = k /\ ms[j].val.num)
    IN  [k \in FieldSet |-> IF f.exists /\ f.text.object /\ has(k)
                            THEN ParseF32(ms[first(k)].val) ELSE DefaultSettings[k]]

\* CameraSettings::load_or_default (load_or_default_settings in main.rs)
load_or_default(f) ==
    LET r == load_from_file(f) IN IF r.ok THEN r.value ELSE DefaultSettings

Min(a, b) == IF a < b THEN a ELSE b
Max(a, b) == IF a > b THEN a ELSE b

SettingButtons ==
    {"MouseSensitivityUp", "MouseSensitivityDown", "KeyboardSensitivityUp",
     "KeyboardSensitivityDown", "MovementSpeedUp", "MovementSpeedDown",
     "ZoomSpeedUp", "ZoomSpeedDown", "SaveSettings", "LoadSettings"}

\* The Down arms without their lower clamp
AdjustSetting_down_unclamped(s, b) ==
    CASE b = "MouseSensitivityUp" -> [s EXCEPT !.mouse_sensitivity = Min(@ + 1, 20)]
      [] b = "MouseSensitivityDown" -> [s EXCEPT !.mouse_sensitivity = @ - 1]
      [] b = "KeyboardSensitivityUp" -> [s EXCEPT !.keyboard_sensitivity = Min(@ + 10, 100)]
      [] b = "KeyboardSensitivityDown" -> [s EXCEPT !.keyboard_sensitivity = @ - 10]
      [] b = "MovementSpeedUp" -> [s EXCEPT !.movement_speed = Min(@ + 5000, 100000)]
      [] b = "MovementSpeedDown" -> [s EXCEPT !.movement_speed = @ - 5000]
      [] b = "ZoomSpeedUp" -> [s EXCEPT !.zoom_speed = Min(@ + 10000, 200000)]
      [] b = "ZoomSpeedDown" -> [s EXCEPT !.zoom_speed = @ - 10000]
      [] OTHER -> s

\* The settings after an Up/Down button: the step and the clamp of each arm
AdjustSetting(s, b) ==
    CASE b = "MouseSensitivityUp" -> [s EXCEPT !.mouse_sensitivity = Min(@ + 1, 20)]
      [] b = "MouseSensitivityDown" -> [s EXCEPT !.mouse_sensitivity = Max(@ - 1, 1)]
      [] b = "KeyboardSensitivityUp" -> [s EXCEPT !.keyboard_sensitivity = Min(@ + 10, 100)]
      [] b = "KeyboardSensitivityDown" -> [s EXCEPT !.keyboard_sensitivity = Max(@ - 10, 10)]
      [] b = "MovementSpeedUp" -> [s EXCEPT !.movement_speed = Min(@ + 5000, 100000)]
      [] b = "MovementSpeedDown" -> [s EXCEPT !.movement_speed = Max(@ - 5000, 5000)]
      [] b = "ZoomSpeedUp" -> [s EXCEPT !.zoom_speed = Min(@ + 10000, 200000)]
      [] b = "ZoomSpeedDown" -> [s EXCEPT !.zoom_speed = Max(@ - 10000, 10000)]
      [] OTHER -> s

\* What save_to_file can do to the file: "ok" writes the JSON text; an error
\* of create_dir_all leaves the file as it was ("err_dir"); an error of
\* fs::write can leave it truncated ("err_write").
SaveOutcomes == {"ok", "err_dir", "err_write"}
save_to_file(s, f, outcome) ==
    CASE outcome = "ok" -> FileOf(to_string_pretty(s))
      [] outcome = "err_dir" -> f
      [] OTHER -> Truncated

\* ------------------------------------------------------------------------
\* The field, the fox and the resources (constants.rs, setup.rs, resources.rs)
\* ------------------------------------------------------------------------

FIELD_SIZE == 9
BLOCK_SIZE == 16
BLOCK_HALF_SIZE == 8
BLOCK_SPACING == 16
SELECTABLE_AREA_START == 3
SELECTABLE_AREA_END == 5
FOX_INITIAL_HEIGHT == 8
FOX_HALF_SIZE == 5
FOX_HOVER_HEIGHT == 2

\* ITEM_SLOT_COUNT is 9 in constants.rs; the model keeps NumSlots slots.
NumSlots == 2
\* Timer.time is kept in frames and saturates at MaxTimer.
MaxTimer == 1

Splat(v) == [i \in Axes |-> v]
Vec3(x, y, z) == [i \in Axes |-> CASE i = 1 -> x [] i = 2 -> y [] OTHER -> z]

\* Option<T>
Some(v) == [some |-> TRUE, v |-> v]
None(dflt) == [some |-> FALSE, v |-> dflt]

\* Entities: the blocks of spawn_field, by grid index, and the one fox
BlockE(x, z) == [kind |-> "block", x |-> x, z |-> z]
FoxE == [kind |-> "fox", x |-> 0, z |-> 0]
Blocks == {BlockE(x, z) : x \in 0..(FIELD_SIZE - 1), z \in 0..(FIELD_SIZE - 1)}

\* spawn_field: Transform::from_xyz(x_pos, 0.0, z_pos),
\* x_pos = (x - FIELD_SIZE / 2.0) * BLOCK_SPACING (the field size is odd, so
\* twice the offset is taken and halved after the multiplication)
BlockPos(b) ==
    Vec3(((2 * b.x - FIELD_SIZE) * BLOCK_SPACING) \div 2, 0,
         ((2 * b.z - FIELD_SIZE) * BLOCK_SPACING) \div 2)

\* spawn_field: is_selectable
Selectable(b) ==
    /\ b.x \in SELECTABLE_AREA_START..SELECTABLE_AREA_END
    /\ b.z \in SELECTABLE_AREA_START..SELECTABLE_AREA_END

\* Query iteration order of the blocks: the order spawn_field spawns them in
BlockOrder(b) == b.x * FIELD_SIZE + b.z

\* The loop over block_query of block_hover_highlight and block_click_handler:
\* the Selectable block with the least distance, the first such in iteration
\* order (the loop replaces the best only on distance < closest_distance)
SelectableBlocks == {b \in Blocks : Selectable(b)}
ClosestBlock(ray, sem) ==
    LET dist == [b \in SelectableBlocks |->
                    ray_box_intersection(ray, BlockPos(b), Splat(BLOCK_HALF_SIZE), sem)]
        hit == {b \in SelectableBlocks : dist[b].some /\ FLt(dist[b].t, PInf)}
        best == CHOOSE b \in hit : \A c \in hit :
                    IF FLt(dist[b].t, dist[c].t) THEN TRUE
                    ELSE ~FLt(dist[c].t, dist[b].t) /\ BlockOrder(b) <= BlockOrder(c)
    IN  IF hit = {} THEN [some |-> FALSE, entity |-> FoxE, distance |-> Zero]
        ELSE [some |-> TRUE, entity |-> best, distance |-> dist[best].t]

\* The rays the cursor of the model casts over the field, straight down:
\* over the middle of block (4,4), over block (5,5) where the fox at its
\* spawn point also is, over a block outside the selectable area, and down
\* the face that blocks (4,4) and (5,4) share
RayAt(x, z) == Ray(Vec3(x, 100, z), Vec3(0, -1, 0), FALSE)
GameRays == {RayAt(-8, -8), RayAt(4, 4), RayAt(-40, -8), RayAt(0, -8)}

Slots == 0..(NumSlots - 1)

\* spawn_camera_and_light: the camera at CAMERA_INITIAL_POSITION looking at
\* the origin; yaw and pitch (EulerRot::YXZ) in milliradians
CAMERA_INITIAL_POSITION == Vec3(200, 300, 200)
InitialCamera == [translation |-> CAMERA_INITIAL_POSITION, yaw |-> 785, pitch |-> -815]

\* The fox's animation at startup: Fox.glb still loading, so no
\* AnimationClip asset and no AnimationPlayer yet; no FoxAnimationState
\* component (its fields hold FoxAnimationState::default() from then on);
\* the AnimationPlayer plays nothing.  assets is "loading", then "loaded"
\* (the clips of the file are there), then "spawned" (the scene instance
\* with its AnimationPlayer is there too).
NoAnim ==
    [assets |-> "loading", has_state |-> FALSE, is_moving |-> FALSE,
     current_animation |-> 0, animation_graphs |-> {}, playing |-> None(0)]

\* The rain: the time of the frames in which spawn_rain has seen rain
\* without a break, in ms, and the drops it has spawned in them (history)
NoRain == [run_ms |-> 0, run_drops |-> 0]

\* The world after setup and the init_resource defaults
InitWorld ==
    [ move_mode |-> [is_active |-> FALSE, is_holding |-> FALSE, fox_entity |-> None(FoxE)],
      possession_mode |-> [is_active |-> FALSE, fox_entity |-> None(FoxE),
                           camera_offset |-> Vec3(0, 0, 0),
                           previous_camera_transform |-> None(InitialCamera)],
      selected_slot |-> [slot_index |-> None(0), item_type |-> "None"],
      item_slots |-> [i \in Slots |-> "None"],
      fox |-> [translation |-> Vec3(0, FOX_INITIAL_HEIGHT, 0),
               global |-> Vec3(0, FOX_INITIAL_HEIGHT, 0), visibility |-> "Inherited",
               facing |-> None(<<0, 0>>)],
      timers |-> (FoxE :> 0),
      camera |-> InitialCamera,
      drag_state |-> [is_dragging |-> FALSE, last_position |-> None(<<0, 0>>)],
      dash_state |-> [is_dashing |-> FALSE, since_tap |-> None(0), last_key |-> None("")],
      feedback |-> "",
      action_menu |-> 0,
      highlights |-> {},
      highlighted |-> {},
      anim |-> NoAnim,
      weather |-> [is_raining |-> FALSE],
      rain |-> NoRain,
      commands |-> <<>> ]

\* Commands are deferred: a system appends them and they are applied when
\* the schedule has run (no system of the game is ordered after another, so
\* there is no earlier sync point).
Cmd(op, arg) == [op |-> op, arg |-> arg]
NoArg == [kind |-> "none"]
Push(w, cmds) == [w EXCEPT !.commands = @ \o cmds]

\* The frame's input as the systems read it: the cursor (inside the window
\* or not), the ray viewport_to_world gives for it (or its error), the left
\* mouse button, and the UI Button whose Interaction became Pressed
NoRay == Ray(Vec3(0, 0, 0), Vec3(0, -1, 0), FALSE)
HasRay(in) == in.cursor = "in" /\ in.ray_ok

\* ------------------------------------------------------------------------
\* block_hover_highlight (game_logic.rs)
\* ------------------------------------------------------------------------

HIGHLIGHT_COLOR_NORMAL == "white"
HIGHLIGHT_COLOR_MOVE == "green"

ClearHighlight == <<Cmd("despawn_highlights", NoArg), Cmd("remove_highlighted", NoArg)>>

HighlightColor(is_active) ==
    IF is_active THEN HIGHLIGHT_COLOR_MOVE ELSE HIGHLIGHT_COLOR_NORMAL

\* cur is highlighted_block_query.iter().next(): one of the marked blocks
block_hover_highlight(w, in, sem, cur) ==
    IF in.cursor = "out" THEN Push(w, ClearHighlight)
    ELSE IF ~in.ray_ok THEN w
    ELSE LET hov == ClosestBlock(in.ray, sem)
         IN  IF hov.some
             THEN IF cur # Some(hov.entity)
                  THEN Push(w, ClearHighlight \o
                               << Cmd("spawn_highlight",
                                      [kind |-> "highlight", pos |-> BlockPos(hov.entity),
                                       color |-> HighlightColor(w.move_mode.is_active)]),
                                  Cmd("insert_highlighted", hov.entity) >>)
                  ELSE w
             ELSE Push(w, ClearHighlight)

\* ------------------------------------------------------------------------
\* block_click_handler (game_logic.rs)
\* ------------------------------------------------------------------------

\* The flags cleared, the fox entity kept
ClearedMoveMode_keeps_fox == [is_active |-> FALSE, is_holding |-> FALSE, fox_entity |-> Some(FoxE)]

ClearedMoveMode == [is_active |-> FALSE, is_holding |-> FALSE, fox_entity |-> None(FoxE)]
ClearedSelection == [slot_index |-> None(0), item_type |-> "None"]

\* the fox set on the clicked block
OnBlock(b) == Vec3(BlockPos(b)[1], FOX_INITIAL_HEIGHT, BlockPos(b)[3])

\* The click once it is known to be on the field: the closest entity under
\* the ray and what is done with it.
\* vp_ok: whether world_to_viewport succeeds in spawn_fox_action_menu
ClickOnField(w, in, sem, vp_ok) ==
    LET blk == ClosestBlock(in.ray, sem)
        tryfox == ~w.move_mode.is_active /\ w.selected_slot.item_type = "None"
        \* fox_query reads the GlobalTransform, which transform propagation
        \* brings up to date after the systems of the frame have run
        foxhit == ray_box_intersection(in.ray, w.fox.global, Splat(FOX_HALF_SIZE), sem)
        is_fox == /\ tryfox
                  /\ foxhit.some
                  /\ FLt(foxhit.t, IF blk.some THEN blk.distance ELSE PInf)
        clicked == IF is_fox THEN FoxE ELSE blk.entity
    IN
    IF blk.some \/ is_fox
    THEN IF w.selected_slot.item_type # "None" /\ ~is_fox /\ w.selected_slot.slot_index.some
         THEN \* an item of the selected slot is set on the block
              Push([w EXCEPT
                      !.item_slots = [i \in Slots |->
                          IF i = w.selected_slot.slot_index.v THEN "None" ELSE @[i]],
                      !.fox.translation = OnBlock(clicked),
                      !.feedback = "item_placed",
                      !.selected_slot = ClearedSelection],
                   <<Cmd("fox_visibility", [kind |-> "Visible"])>>)
         ELSE IF w.move_mode.is_active /\ w.move_mode.is_holding /\ ~is_fox
         THEN \* the held fox is set on the block
              [w EXCEPT
                 !.fox.translation = IF w.move_mode.fox_entity.some THEN OnBlock(clicked) ELSE @,
                 !.feedback = IF w.move_mode.fox_entity.some THEN "fox_placed" ELSE @,
                 !.move_mode = ClearedMoveMode]
         ELSE LET menu == IF ~w.move_mode.is_active
                          THEN <<Cmd("despawn_menus", NoArg)>> \o
                               (IF is_fox /\ vp_ok THEN <<Cmd("spawn_menu", NoArg)>> ELSE <<>>)
                          ELSE <<>>
              IN  IF w.move_mode.is_active THEN Push(w, menu)
                  ELSE IF clicked \in DOMAIN w.timers
                  THEN Push([w EXCEPT !.timers[clicked] = 0,
                                      !.feedback = "timer_reset"], menu)
                  ELSE Push([w EXCEPT !.feedback = ""], menu)
    ELSE IF w.move_mode.is_active /\ w.move_mode.is_holding
    THEN [w EXCEPT !.feedback = "only_selectable"]
    ELSE Push([w EXCEPT !.selected_slot =
                            IF @.item_type # "None" THEN ClearedSelection ELSE @],
              <<Cmd("despawn_menus", NoArg)>>)

\* A click that finds no block ends move mode
block_click_handler_miss_cancels(w, in, sem, vp_ok) ==
    IF in.left # "just" THEN w
    ELSE IF in.button.kind # "none" THEN w
    ELSE IF ~HasRay(in) THEN w
    ELSE IF w.move_mode.is_active /\ ~ClosestBlock(in.ray, sem).some
    THEN [w EXCEPT !.move_mode = ClearedMoveMode, !.feedback = "only_selectable"]
    ELSE ClickOnField(w, in, sem, vp_ok)

\* The handler without its look at the Buttons
block_click_handler_any_button(w, in, sem, vp_ok) ==
    IF in.left # "just" THEN w
    ELSE IF ~HasRay(in) THEN w
    ELSE ClickOnField(w, in, sem, vp_ok)

block_click_handler(w, in, sem, vp_ok) ==
    IF in.left # "just" THEN w
    ELSE IF in.button.kind # "none" THEN w
    ELSE IF ~HasRay(in) THEN w
    ELSE ClickOnField(w, in, sem, vp_ok)

\* ------------------------------------------------------------------------
\* handle_fox_action_buttons, fox_follow_cursor (game_logic.rs),
\* handle_item_slot_click (ui.rs), update_timers (cf_tool/timer.rs)
\* ------------------------------------------------------------------------

\* the last slot with no item
FirstEmptySlot_highest(item_slots) ==
    IF \E i \in Slots : item_slots[i] = "None"
    THEN CHOOSE i \in Slots :
            item_slots[i] = "None" /\ \A j \in Slots : item_slots[j] = "None" => i >= j
    ELSE NumSlots

\* slots.sort_by_key(|slot| slot.slot_index), then the first slot with no
\* item; NumSlots when there is none
FirstEmptySlot(item_slots) ==
    IF \E i \in Slots : item_slots[i] = "None"
    THEN CHOOSE i \in Slots :
            item_slots[i] = "None" /\ \A j \in Slots : item_slots[j] = "None" => i <= j
    ELSE NumSlots

handle_fox_action_buttons(w, in) ==
    CASE in.button.kind = "Move" ->
            Push([w EXCEPT !.move_mode = [is_active |-> TRUE, is_holding |-> TRUE,
                                           fox_entity |-> Some(FoxE)],
                           !.feedback = "move_mode"],
                 <<Cmd("despawn_menus", NoArg)>>)
      [] in.button.kind = "Box" ->
            LET i == FirstEmptySlot(w.item_slots)
            IN  IF i \in Slots
                THEN Push([w EXCEPT !.item_slots[i] = "Fox", !.feedback = "stored"],
                          <<Cmd("fox_visibility", [kind |-> "Hidden"]),
                            Cmd("despawn_menus", NoArg)>>)
                ELSE Push([w EXCEPT !.feedback = "slots_full"],
                          <<Cmd("despawn_menus", NoArg)>>)
      [] in.button.kind = "Possession" ->
            Push([w EXCEPT !.possession_mode =
                                [is_active |-> TRUE, fox_entity |-> Some(FoxE),
                                 camera_offset |-> Vec3(0, 2, -3),
                                 previous_camera_transform |-> Some(w.camera)],
                           !.feedback = "possession_mode"],
                 <<Cmd("despawn_menus", NoArg)>>)
      [] OTHER -> w

\* The ray meets the plane y = FOX_INITIAL_HEIGHT at
\* t = (plane_y - origin.y) / direction.y; the rays of the model are
\* vertical, so the meeting point has the origin's x and z.
fox_follow_cursor(w, in) ==
    IF ~w.move_mode.is_active \/ ~w.move_mode.is_holding THEN w
    ELSE IF ~HasRay(in) THEN w
    ELSE IF in.ray.dir[2] # 0
            /\ FLt(Zero, Fin(FOX_INITIAL_HEIGHT - in.ray.origin[2], in.ray.dir[2]))
            /\ w.move_mode.fox_entity.some
         THEN [w EXCEPT !.fox.translation =
                    Vec3(in.ray.origin[1], FOX_INITIAL_HEIGHT + FOX_HOVER_HEIGHT,
                         in.ray.origin[3])]
         ELSE w

handle_item_slot_click(w, in) ==
    IF in.button.kind = "Slot" /\ w.item_slots[in.button.slot] # "None"
    THEN [w EXCEPT !.selected_slot = [slot_index |-> Some(in.button.slot),
                                      item_type |-> w.item_slots[in.button.slot]],
                   !.feedback = "item_selected"]
    ELSE w

\* timer.time += time.delta_secs(), one frame at a time
update_timers(w) ==
    [w EXCEPT !.timers = [e \in DOMAIN @ |-> IF @[e] < MaxTimer THEN @[e] + 1 ELSE @[e]]]

\* The deferred commands, applied in the order they were queued, and then
\* transform propagation
ApplyCmd(w, c) ==
    CASE c.op = "despawn_highlights" -> [w EXCEPT !.highlights = {}]
      [] c.op = "remove_highlighted" -> [w EXCEPT !.highlighted = {}]
      [] c.op = "spawn_highlight" -> [w EXCEPT !.highlights = @ \cup {c.arg}]
      [] c.op = "insert_highlighted" -> [w EXCEPT !.highlighted = @ \cup {c.arg}]
      [] c.op = "despawn_menus" -> [w EXCEPT !.action_menu = 0]
      [] c.op = "spawn_menu" -> [w EXCEPT !.action_menu = 1]
      [] c.op = "fox_visibility" -> [w EXCEPT !.fox.visibility = c.arg.kind]
      [] c.op = "insert_animation_state" ->
            [w EXCEPT !.anim.has_state = TRUE, !.anim.is_moving = FALSE,
                      !.anim.current_animation = 0, !.anim.animation_graphs = {}]
      [] OTHER -> w

RECURSIVE ApplyAll(_, _)
ApplyAll(w, cmds) ==
    IF cmds = <<>> THEN w ELSE ApplyAll(ApplyCmd(w, Head(cmds)), Tail(cmds))

ApplyDeferred(w) ==
    [ApplyAll(w, w.commands) EXCEPT !.commands = <<>>, !.fox.global = w.fox.translation]

\* ------------------------------------------------------------------------
\* The camera (camera.rs).  Lengths are whole world units, angles are
\* milliradians, sines and cosines are thousandths.
\* ------------------------------------------------------------------------

CAMERA_PITCH_LIMIT == 1500
Pi == 3142
TwoPi == 6283

\* n / d rounded to the nearest integer, d > 0
RoundDiv(n, d) == (2 * n + d) \div (2 * d)

\* sin and cos, by Bhaskara's rational approximation on [0, pi]
SinHalf(x) == LET p == x * (Pi - x) IN (16 * p) \div ((5 * Pi * Pi - 4 * p) \div 1000)
Sin(x) == LET r == x % TwoPi IN IF r <= Pi THEN SinHalf(r) ELSE -SinHalf(r - Pi)
Cos(x) == Sin(x + Pi \div 2)

\* Quat::from_euler(YXZ, yaw, pitch, roll) read back by to_euler: the yaw
\* comes back in (-pi, pi]; the roll is 0 throughout
WrapYaw(y) == ((y + Pi - 1) % TwoPi) - (Pi - 1)
Clamp(v, lo, hi) == IF v < lo THEN lo ELSE IF v > hi THEN hi ELSE v

\* transform.forward() and transform.right(), in thousandths
Forward(cam) ==
    Vec3(RoundDiv(-(Sin(cam.yaw) * Cos(cam.pitch)), 1000), Sin(cam.pitch),
         RoundDiv(-(Cos(cam.yaw) * Cos(cam.pitch)), 1000))
\* Vec3::new(forward.x, 0.0, forward.z).normalize_or_zero(): |pitch| stays
\* below pi / 2, so the horizontal part of forward is never zero
ForwardXZ(cam) == Vec3(-Sin(cam.yaw), 0, -Cos(cam.yaw))
RightXZ(cam) == Vec3(Cos(cam.yaw), 0, -Sin(cam.yaw))

Add3(a, b) == [i \in Axes |-> a[i] + b[i]]
\* v (thousandths) * k (thousandths), in whole units
Scale3(v, k) == [i \in Axes |-> RoundDiv(v[i] * k, 1000000)]

\* settings: the CameraSettings, whose fields are kept in thousandths
camera_zoom(w, in, cs) ==
    IF w.possession_mode.is_active THEN w
    ELSE IF in.wheel = 0 THEN w
    ELSE [w EXCEPT !.camera.translation =
              Add3(@, Scale3(Forward(w.camera), in.wheel * cs.zoom_speed))]

\* The drag of camera_drag_rotation and possession_camera_rotation
DragRotate(w, in, cs) ==
    IF in.cursor = "out"
    THEN [w EXCEPT !.drag_state = [is_dragging |-> FALSE, last_position |-> None(<<0, 0>>)]]
    ELSE IF in.left # "up"
    THEN LET last == w.drag_state.last_position
             yaw == -(in.pos[1] - last.v[1]) * cs.mouse_sensitivity
             pitch == -(in.pos[2] - last.v[2]) * cs.mouse_sensitivity
         IN  [w EXCEPT
                !.camera.yaw = IF last.some THEN WrapYaw(@ + yaw) ELSE @,
                !.camera.pitch = IF last.some
                                 THEN Clamp(@ + pitch, -CAMERA_PITCH_LIMIT, CAMERA_PITCH_LIMIT)
                                 ELSE @,
                !.drag_state = [is_dragging |-> TRUE, last_position |-> Some(in.pos)]]
    ELSE [w EXCEPT !.drag_state = [is_dragging |-> FALSE, last_position |-> None(<<0, 0>>)]]

camera_drag_rotation_ungated(w, in, cs) == DragRotate(w, in, cs)
camera_drag_rotation(w, in, cs) ==
    IF w.move_mode.is_active \/ w.possession_mode.is_active
    THEN [w EXCEPT !.drag_state = [is_dragging |-> FALSE, last_position |-> None(<<0, 0>>)]]
    ELSE DragRotate(w, in, cs)

possession_camera_rotation(w, in, cs) ==
    IF ~w.possession_mode.is_active THEN w ELSE DragRotate(w, in, cs)

KeyDelta(in, plus, minus, k) ==
    (IF plus \in in.keys THEN k ELSE 0) - (IF minus \in in.keys THEN k ELSE 0)

camera_keyboard_rotation(w, in, cs) ==
    IF w.possession_mode.is_active THEN w
    ELSE LET yaw_delta == KeyDelta(in, "ArrowLeft", "ArrowRight", cs.keyboard_sensitivity)
             pitch_delta == KeyDelta(in, "ArrowUp", "ArrowDown", cs.keyboard_sensitivity)
         IN  IF yaw_delta # 0 \/ pitch_delta # 0
             THEN [w EXCEPT
                     !.camera.yaw = WrapYaw(@ + yaw_delta),
                     !.camera.pitch = Clamp(@ + pitch_delta,
                                            -CAMERA_PITCH_LIMIT, CAMERA_PITCH_LIMIT)]
             ELSE w

\* The sum of the directions of the held WASD keys, in thousandths
KeyMovement(w, in) ==
    [i \in Axes |-> KeyDelta(in, "KeyW", "KeyS", ForwardXZ(w.camera)[i])
                    + KeyDelta(in, "KeyD", "KeyA", RightXZ(w.camera)[i])]

camera_keyboard_pan(w, in, cs) ==
    IF w.possession_mode.is_active THEN w
    ELSE IF KeyMovement(w, in) # Vec3(0, 0, 0)
    THEN [w EXCEPT !.camera.translation =
              Add3(@, Scale3(KeyMovement(w, in), cs.movement_speed))]
    ELSE w

\* camera_distance = -40.0, camera_height = 40.0
possession_camera_follow(w) ==
    IF ~w.possession_mode.is_active THEN w
    ELSE IF ~w.possession_mode.fox_entity.some THEN w
    ELSE [w EXCEPT !.camera.translation =
              Add3(w.fox.global,
                   Vec3(RoundDiv(Sin(w.camera.yaw) * 40, 1000), 40,
                        RoundDiv(Cos(w.camera.yaw) * 40, 1000)))]

\* ------------------------------------------------------------------------
\* exit_possession_mode, fox_possession_movement (game_logic.rs)
\* ------------------------------------------------------------------------

\* time.delta_secs() of every frame and DashInputState.dash_timeout, in ms
DeltaMs == 100
DashTimeoutMs == 300

ClearedDash == [is_dashing |-> FALSE, since_tap |-> None(0), last_key |-> None("")]

exit_possession_mode(w, in) ==
    IF ~w.possession_mode.is_active THEN w
    ELSE IF "Escape" \in in.just_keys
    THEN [w EXCEPT
            !.camera = IF w.possession_mode.previous_camera_transform.some
                       THEN w.possession_mode.previous_camera_transform.v ELSE @,
            !.possession_mode.is_active = FALSE,
            !.possession_mode.fox_entity = None(FoxE),
            !.possession_mode.previous_camera_transform = None(InitialCamera),
            !.dash_state = ClearedDash,
            !.feedback = "possession_ended"]
    ELSE w

\* DashInputState.last_tap_time is kept as the time since the tap,
\* current_time - last_time, which is all the code reads of it; it stops
\* growing at dash_timeout.  Time::elapsed advances once a frame.
AdvanceTime(w) ==
    [w EXCEPT !.dash_state.since_tap =
        IF @.some /\ @.v < DashTimeoutMs THEN Some(@.v + DeltaMs) ELSE @]

movement_keys == <<"KeyW", "KeyS", "KeyA", "KeyD">>

\* The double-tap loop over movement_keys
RECURSIVE DashTaps(_, _, _)
DashTaps(ds, in, k) ==
    IF k > Len(movement_keys) THEN ds
    ELSE IF movement_keys[k] \in in.just_keys
    THEN DashTaps([is_dashing |-> IF /\ ds.since_tap.some
                                     /\ ds.last_key.some
                                     /\ ds.last_key.v = movement_keys[k]
                                     /\ ds.since_tap.v < DashTimeoutMs
                                  THEN TRUE ELSE ds.is_dashing,
                   since_tap |-> Some(0),
                   last_key |-> Some(movement_keys[k])], in, k + 1)
    ELSE DashTaps(ds, in, k + 1)

\* The integer square root, by bisection
RECURSIVE IsqrtIn(_, _, _)
IsqrtIn(n, lo, hi) ==
    IF lo >= hi THEN lo
    ELSE LET mid == (lo + hi + 1) \div 2
         IN  IF mid * mid <= n THEN IsqrtIn(n, mid, hi) ELSE IsqrtIn(n, lo, mid - 1)

\* movement.normalize() of a horizontal vector, in thousandths
Normalize(v) ==
    LET len == IsqrtIn(v[1] * v[1] + v[3] * v[3], 0, 4000)
    IN  [i \in Axes |-> RoundDiv(v[i] * 1000, len)]

base_speed == 15
dash_speed == 50

fox_possession_movement(w, in) ==
    IF ~w.possession_mode.is_active THEN w
    ELSE IF ~w.possession_mode.fox_entity.some THEN w
    ELSE
    LET tapped == DashTaps(w.dash_state, in, 1)
        ds == IF in.keys \cap {"KeyW", "KeyS", "KeyA", "KeyD"} = {}
              THEN [tapped EXCEPT !.is_dashing = FALSE] ELSE tapped
        movement_speed == IF ds.is_dashing THEN dash_speed ELSE base_speed
        movement == KeyMovement(w, in)
        dir == Normalize(movement)
    IN  IF movement # Vec3(0, 0, 0)
        THEN [w EXCEPT
                !.dash_state = ds,
                !.fox.translation =
                    Add3(@, [i \in Axes |-> RoundDiv(dir[i] * movement_speed * DeltaMs, 1000000)]),
                !.fox.facing = Some(<<dir[1], dir[3]>>)]
        ELSE [w EXCEPT !.dash_state = ds]

\* ------------------------------------------------------------------------
\* play_fox_animation (animation.rs)
\* ------------------------------------------------------------------------

\* target_animation: 2 dashing, 1 moving, 0 idle
TargetAnimation(w, in) ==
    LET is_moving == /\ w.possession_mode.is_active
                     /\ in.keys \cap {"KeyW", "KeyS", "KeyA", "KeyD"} # {}
    IN  IF is_moving /\ w.dash_state.is_dashing THEN 2
        ELSE IF is_moving THEN 1 ELSE 0

\* find_animation_player finds a player once the scene is spawned; the
\* clips of Fox.glb are loaded from "loaded" on
play_fox_animation(w, in) ==
    IF w.anim.assets # "spawned" THEN w
    ELSE IF ~w.anim.has_state
    THEN Push(w, <<Cmd("insert_animation_state", NoArg)>>)
    ELSE
    LET target == TargetAnimation(w, in)
        graphs == IF target \notin w.anim.animation_graphs /\ w.anim.assets # "loading"
                  THEN w.anim.animation_graphs \cup {target}
                  ELSE w.anim.animation_graphs
    IN  IF w.anim.current_animation # target /\ target \in graphs
        THEN [w EXCEPT !.anim.animation_graphs = graphs,
                       !.anim.playing = Some(target),
                       !.anim.is_moving = (target # 0),
                       !.anim.current_animation = target]
        ELSE [w EXCEPT !.anim.animation_graphs = graphs]

\* ------------------------------------------------------------------------
\* State
\* ------------------------------------------------------------------------

VARIABLES
    \* ray_box_intersection: the call's arguments and its result
    ray_query, ray_result,
    \* the settings file, the CameraSettings resource, the last operation on
    \* it, the values of the last successful save (history), presses so far
    file, settings, last_op, saved, presses,
    \* the ECS world (resources, components, queued commands), the input of
    \* the frame, the systems still to run in it, the world the frame began
    \* with (history of the game's frames), and the moving inputs so far
    world, input, todo, pre, moves,
    \* history of the camera's frames: the mouse of the frame before, whether
    \* that frame and this one began in possession mode; the camera when
    \* possession mode was last entered
    prev, entry_camera,
    \* SettingsMenuState, the SettingsMenu root entities, the commands that
    \* toggle_settings_menu queued in this frame, and this frame's Escape
    menu

rayVars == <<ray_query, ray_result>>
setVars == <<file, settings, last_op, saved, presses, menu>>
gameVars == <<world, input, todo, pre, moves, prev, entry_camera>>
vars == <<ray_query, ray_result, file, settings, last_op, saved, presses,
          world, input, todo, pre, moves, prev, entry_camera, menu>>

\* ------------------------------------------------------------------------
\* Specification of ray_box_intersection over bounded arguments
\* ------------------------------------------------------------------------

Coords == (0 - MaxCoord)..MaxCoord
Dirs == {d \in [Axes -> -1..1] : \E i \in Axes : d[i] # 0}
NoQuery == [ray |-> Ray([i \in Axes |-> 0], [i \in Axes |-> 1], FALSE),
            center |-> [i \in Axes |-> 0], half |-> [i \in Axes |-> 0], sem |-> "ieee"]
Pending == [done |-> FALSE, out |-> NoneT]

RayInit ==
    /\ ray_query \in [ray : {Ray(o, d, z) : o \in [Axes -> Coords], d \in Dirs, z \in BOOLEAN},
                      center : {[i \in Axes |-> 0]},
                      half : {[i \in Axes |-> h] : h \in 1..MaxHalf},
                      sem : FloatSems]
    /\ ray_result = Pending

\* One call of ray_box_intersection
RayBoxCall ==
    /\ ~ray_result.done
    /\ ray_result' = [done |-> TRUE,
                      out |-> ray_box_intersection(ray_query.ray, ray_query.center,
                                                   ray_query.half, ray_query.sem)]
    /\ UNCHANGED <<ray_query, setVars, gameVars>>

\* ------------------------------------------------------------------------
\* Specification of the settings file and the settings buttons
\* ------------------------------------------------------------------------

TextOf(ms) == [object |-> TRUE, members |-> ms]
Tok3 == NumTok(0, <<0, 0, 5>>)
Tok30 == NumTok(0, <<0, 3>>)
Tok20k == NumTok(20, <<0>>)
Tok70k == NumTok(70, <<0>>)
FullMembers ==
    <<Member("mouse_sensitivity", Tok3), Member("keyboard_sensitivity", Tok30),
      Member("movement_speed", Tok20k), Member("zoom_speed", Tok70k)>>

\* The files the game can find at startup
StartFiles ==
    { NoFile,
      Truncated,
      FileOf(TextOf(FullMembers)),
      \* the same members in another order, with an unknown key among them
      FileOf(TextOf(<<FullMembers[4], Member("fov", Tok3), FullMembers[2],
                      FullMembers[1], FullMembers[3]>>)),
      \* the values at the upper clamps
      FileOf(TextOf(<<Member("mouse_sensitivity", NumTok(0, <<0, 2>>)),
                      Member("keyboard_sensitivity", NumTok(0, <<1>>)),
                      Member("movement_speed", NumTok(100, <<0>>)),
                      Member("zoom_speed", NumTok(200, <<0>>))>>)),
      \* a field missing
      FileOf(TextOf(SubSeq(FullMembers, 1, 3))),
      \* a field that is no number
      FileOf(TextOf(<<FullMembers[1], FullMembers[2], Member("movement_speed", BadTok),
                      FullMembers[4]>>)),
      \* a field given twice
      FileOf(TextOf(FullMembers \o <<FullMembers[1]>>)) }

NoSave == [valid |-> FALSE, value |-> DefaultSettings, touched |-> FALSE]

\* SettingsMenuState::default() and no SettingsMenu entity; stage is "idle"
\* between frames and "ran" once toggle_settings_menu has run in the frame
ClosedMenu == [is_open |-> FALSE, roots |-> 0, commands |-> <<>>,
               stage |-> "idle", escape |-> FALSE]

\* The menu closes without despawning what is open
toggle_settings_menu_no_despawn(m, escape) ==
    IF escape
    THEN [m EXCEPT !.is_open = ~@,
                   !.commands = @ \o (IF ~m.is_open THEN <<"spawn">> ELSE <<>>)]
    ELSE m

\* toggle_settings_menu: on Escape just pressed is_open flips; opening
\* queues the spawn of one menu root (spawn_settings_menu), closing queues
\* the despawn of every SettingsMenu entity the query holds
toggle_settings_menu(m, escape) ==
    IF escape
    THEN [m EXCEPT !.is_open = ~@,
                   !.commands = @ \o (IF ~m.is_open THEN <<"spawn">>
                                      ELSE [i \in 1..m.roots |-> "despawn"])]
    ELSE m

RECURSIVE ApplyMenuCommands(_, _)
ApplyMenuCommands(roots, cmds) ==
    IF cmds = <<>> THEN roots
    ELSE ApplyMenuCommands(IF Head(cmds) = "spawn" THEN roots + 1
                           ELSE IF roots > 0 THEN roots - 1 ELSE 0,
                           Tail(cmds))

\* main: insert_resource(load_or_default_settings())
SetInit ==
    /\ file \in StartFiles
    /\ settings = load_or_default(file)
    /\ last_op = <<"startup">>
    /\ saved = NoSave
    /\ presses = 0
    /\ menu = ClosedMenu

\* handle_setting_buttons for one pressed SettingButton; the SettingButtons
\* are children of the menu root
HandleSettingButtons ==
    /\ presses < MaxPresses
    /\ menu.roots > 0
    /\ \E b \in SettingButtons, outcome \in SaveOutcomes :
        /\ b # "SaveSettings" => outcome = "ok"
        /\ presses' = presses + 1
        /\ last_op' = IF b = "SaveSettings" THEN <<b, outcome>> ELSE <<b>>
        /\ CASE b = "SaveSettings" ->
                  /\ file' = save_to_file(settings, file, outcome)
                  /\ saved' = IF outcome = "ok"
                              THEN [valid |-> TRUE, value |-> settings, touched |-> FALSE]
                              ELSE NoSave
                  /\ UNCHANGED settings
             [] b = "LoadSettings" ->
                  LET r == load_from_file(file)
                  IN  /\ settings' = IF r.ok THEN r.value ELSE settings
                      /\ UNCHANGED <<file, saved>>
             [] OTHER ->
                  /\ settings' = AdjustSetting(settings, b)
                  /\ saved' = [saved EXCEPT !.touched = TRUE]
                  /\ UNCHANGED file
    /\ UNCHANGED <<menu, rayVars, gameVars>>

\* toggle_settings_menu in a frame, Escape just pressed in it or not
RunToggleSettingsMenu ==
    /\ menu.stage = "idle"
    /\ \E escape \in BOOLEAN :
          menu' = [toggle_settings_menu(menu, escape) EXCEPT !.stage = "ran",
                                                            !.escape = escape]
    /\ UNCHANGED <<file, settings, last_op, saved, presses, rayVars, gameVars>>

\* The end of the frame: the queued commands of toggle_settings_menu
ApplyMenuDeferred ==
    /\ menu.stage = "ran"
    /\ menu' = [menu EXCEPT !.roots = ApplyMenuCommands(@, menu.commands),
                            !.commands = <<>>, !.stage = "idle"]
    /\ UNCHANGED <<file, settings, last_op, saved, presses, rayVars, gameVars>>

NextSettings ==
    \/ HandleSettingButtons
    \/ RunToggleSettingsMenu
    \/ ApplyMenuDeferred

\* ------------------------------------------------------------------------
\* The frames of the game: the input of a frame, then the systems of the
\* Update schedule one by one, then the queued commands
\* ------------------------------------------------------------------------

NoButton == [kind |-> "none", slot |-> 0]
ActionButton(k) == [kind |-> k, slot |-> 0]
SlotButton(i) == [kind |-> "Slot", slot |-> i]

IdleInput ==
    [cursor |-> "out", ray_ok |-> FALSE, ray |-> NoRay, left |-> "up",
     button |-> NoButton, pos |-> <<0, 0>>, keys |-> {}, just_keys |-> {}, wheel |-> 0]

GameInit ==
    /\ world = InitWorld
    /\ input = IdleInput
    /\ todo = <<>>
    /\ pre = InitWorld
    /\ moves = 0
    /\ prev = [left |-> "up", cursor |-> "out", pos |-> <<0, 0>>,
               possessed |-> FALSE, began |-> FALSE, keys |-> {}]
    /\ entry_camera = None(InitialCamera)

RECURSIVE Reverse(_)
Reverse(q) == IF q = <<>> THEN <<>> ELSE Reverse(Tail(q)) \o <<Head(q)>>

\* The build's float minimum and maximum (FloatSems) are chosen at each
\* call of a system that casts rays.
\* The systems of a tuple are not ordered among themselves: a frame runs
\* them in the order of registration or in the opposite order, which gives
\* every pair of systems both of its orders.
Orders(systems) == {systems, Reverse(systems)}

Ready(s) == todo # <<>> /\ Head(todo) = s
Ran(w) ==
    /\ world' = w
    /\ todo' = Tail(todo)
    /\ entry_camera' = IF ~world.possession_mode.is_active /\ w.possession_mode.is_active
                       THEN Some(world.camera) ELSE entry_camera
    /\ UNCHANGED <<input, pre, moves, prev, rayVars, setVars>>

BeginFrame(in, systems) ==
    /\ todo = <<>>
    /\ input' = in
    /\ world' = AdvanceTime(world)
    /\ todo' \in {o \o <<"apply_deferred">> : o \in Orders(systems)}
    /\ UNCHANGED <<entry_camera, rayVars, setVars>>

\* The end of the schedule: the queued commands, then transform propagation
ApplyDeferredStep == Ready("apply_deferred") /\ Ran(ApplyDeferred(world))

RunBlockHoverHighlight ==
    /\ Ready("block_hover_highlight")
    /\ \E sem \in FloatSems,
          cur \in IF world.highlighted = {} THEN {None(FoxE)}
                  ELSE {Some(b) : b \in world.highlighted} :
          Ran(block_hover_highlight(world, input, sem, cur))
RunBlockClickHandler ==
    /\ Ready("block_click_handler")
    /\ \E sem \in FloatSems, vp_ok \in BOOLEAN :
          Ran(block_click_handler(world, input, sem, vp_ok))
RunHandleFoxActionButtons ==
    Ready("handle_fox_action_buttons") /\ Ran(handle_fox_action_buttons(world, input))
RunFoxFollowCursor == Ready("fox_follow_cursor") /\ Ran(fox_follow_cursor(world, input))
RunHandleItemSlotClick ==
    Ready("handle_item_slot_click") /\ Ran(handle_item_slot_click(world, input))
RunUpdateTimers == Ready("update_timers") /\ Ran(update_timers(world))

\* GameLogicPlugin and UIPlugin (plugins.rs): the systems that act on the
\* state of the model
GameSystems ==
    <<"handle_item_slot_click", "block_hover_highlight", "block_click_handler",
      "handle_fox_action_buttons", "fox_follow_cursor", "update_timers">>

\* The cursor of a frame: outside the window, inside with one of the rays
\* of the model, or inside with no ray
Cursors ==
    {[cursor |-> "out", ray_ok |-> FALSE, ray |-> NoRay],
     [cursor |-> "in", ray_ok |-> FALSE, ray |-> NoRay]}
    \cup {[cursor |-> "in", ray_ok |-> TRUE, ray |-> r] : r \in GameRays}

\* The UI Buttons there are to press: the item slots, and the buttons of
\* the action menu while a menu is shown
GameButtons(w) ==
    {SlotButton(i) : i \in Slots}
    \cup (IF w.action_menu > 0 THEN {ActionButton("Move"), ActionButton("Box")} ELSE {})

\* The ray of a cursor that is over a Button: block (4,4) is behind it
ButtonRays == {RayAt(-8, -8)}

\* A Button becomes Pressed in the frame the left button is just pressed
\* with the cursor over it
GameInputs(w) ==
    {[IdleInput EXCEPT !.cursor = c.cursor, !.ray_ok = c.ray_ok, !.ray = c.ray, !.left = l]
        : c \in Cursors, l \in {"up", "just"}}
    \cup {[IdleInput EXCEPT !.cursor = "in", !.ray_ok = TRUE, !.ray = r,
                            !.left = "just", !.button = b]
        : r \in ButtonRays, b \in GameButtons(w)}

NewFrame ==
    \E in \in GameInputs(world) :
        BeginFrame(in, GameSystems) /\ pre' = world /\ UNCHANGED <<moves, prev>>

Init ==
    /\ GameInit
    /\ SetInit /\ file = NoFile
    /\ ray_query = NoQuery /\ ray_result = Pending

Next ==
    \/ NewFrame
    \/ RunHandleItemSlotClick
    \/ RunBlockHoverHighlight
    \/ RunBlockClickHandler
    \/ RunHandleFoxActionButtons
    \/ RunFoxFollowCursor
    \/ RunUpdateTimers
    \/ ApplyDeferredStep

Spec == Init /\ [][Next]_vars

\* ------------------------------------------------------------------------
\* The frames of the camera and of possession mode
\* ------------------------------------------------------------------------

\* The moving inputs (keys held, wheel turned, cursor dragged) explored
MaxMoves == 1

RunCameraZoom == Ready("camera_zoom") /\ Ran(camera_zoom(world, input, settings))
RunCameraDragRotation ==
    Ready("camera_drag_rotation") /\ Ran(camera_drag_rotation(world, input, settings))
RunCameraKeyboardRotation ==
    Ready("camera_keyboard_rotation") /\ Ran(camera_keyboard_rotation(world, input, settings))
RunCameraKeyboardPan ==
    Ready("camera_keyboard_pan") /\ Ran(camera_keyboard_pan(world, input, settings))
RunPossessionCameraFollow ==
    Ready("possession_camera_follow") /\ Ran(possession_camera_follow(world))
RunPossessionCameraRotation ==
    Ready("possession_camera_rotation") /\ Ran(possession_camera_rotation(world, input, settings))
RunExitPossessionMode ==
    Ready("exit_possession_mode") /\ Ran(exit_possession_mode(world, input))
RunFoxPossessionMovement ==
    Ready("fox_possession_movement") /\ Ran(fox_possession_movement(world, input))

\* CameraPlugin (plugins.rs), the click and button systems of
\* GameLogicPlugin, and the possession systems of camera.rs and
\* game_logic.rs, which run in Update with the others
CameraSystems ==
    <<"camera_zoom", "camera_drag_rotation", "camera_keyboard_rotation",
      "camera_keyboard_pan", "block_click_handler", "handle_fox_action_buttons",
      "possession_camera_follow", "possession_camera_rotation",
      "exit_possession_mode", "fox_possession_movement">>

\* Cursor positions in the window, in pixels
Positions == {<<0, 0>>, <<10, -5>>}
MissRay == RayAt(-40, -8)
FoxRay(w) == RayAt(w.fox.global[1], w.fox.global[3])

InWindow(p, l, r) ==
    [IdleInput EXCEPT !.cursor = "in", !.ray_ok = TRUE, !.ray = r, !.pos = p, !.left = l]
Keyed(old, ks, wh) ==
    [InWindow(old.pos, "up", MissRay) EXCEPT
        !.keys = ks, !.just_keys = ks \ old.keys, !.wheel = wh]

\* One kind of input a frame: the mouse (the cursor outside, or inside at
\* a position with the left button up, just pressed over the fox, over no
\* entity or over the Possession button, or held), or the keyboard and the
\* wheel (W, Escape, or W and an arrow key with the wheel turned)
CameraInputs(w, old) ==
    {IdleInput}
    \cup {InWindow(p, "up", MissRay) : p \in Positions}
    \cup (IF old.left = "up"
          THEN {InWindow(old.pos, "just", r) : r \in {MissRay, FoxRay(w)}}
               \cup (IF w.action_menu > 0
                     THEN {[InWindow(old.pos, "just", MissRay) EXCEPT
                               !.button = ActionButton("Possession")]}
                     ELSE {})
          ELSE {InWindow(p, "held", MissRay) : p \in Positions})
    \cup {Keyed(old, {"KeyW"}, 0), Keyed(old, {"Escape"}, 0),
          Keyed(old, {"KeyW", "ArrowLeft"}, 1)}

\* An input that can move the camera or the fox without bound
Moving(in, old) ==
    \/ in.keys \ {"Escape"} # {}
    \/ in.wheel # 0
    \/ (in.left # "up" /\ old.left # "up" /\ in.pos # old.pos)

NewFrameCamera ==
    \E in \in CameraInputs(world, input) :
        /\ Moving(in, input) => moves < MaxMoves
        /\ moves' = IF Moving(in, input) THEN moves + 1 ELSE moves
        /\ BeginFrame(in, CameraSystems)
        /\ prev' = [left |-> input.left, cursor |-> input.cursor, pos |-> input.pos,
                    possessed |-> prev.began, began |-> world.possession_mode.is_active,
                    keys |-> input.keys]
        /\ UNCHANGED pre

NextCamera ==
    \/ NewFrameCamera
    \/ RunCameraZoom
    \/ RunCameraDragRotation
    \/ RunCameraKeyboardRotation
    \/ RunCameraKeyboardPan
    \/ RunBlockClickHandler
    \/ RunHandleFoxActionButtons
    \/ RunPossessionCameraFollow
    \/ RunPossessionCameraRotation
    \/ RunExitPossessionMode
    \/ RunFoxPossessionMovement
    \/ ApplyDeferredStep

SpecCamera == Init /\ [][NextCamera]_vars

\* ------------------------------------------------------------------------
\* The frames of the possessed fox: its dash and its animation
\* ------------------------------------------------------------------------

\* The frames explored
MaxFoxFrames == 7

RunPlayFoxAnimation ==
    Ready("play_fox_animation") /\ Ran(play_fox_animation(world, input))

\* The systems that read or write move mode, possession mode,
\* DashInputState, the fox's transform and the fox's animation
FoxSystems ==
    <<"block_click_handler", "handle_fox_action_buttons", "fox_follow_cursor",
      "play_fox_animation", "exit_possession_mode", "fox_possession_movement">>

\* The movement keys held in a frame
FoxKeys == {{"KeyW"}, {"KeyS"}, {"KeyW", "KeyS"}, {"Escape"}}

\* One kind of input a frame: none, a click on the fox, on the Possession
\* button or on the Move button of the action menu, or keys held
FoxInputs(w, old) ==
    {InWindow(<<0, 0>>, "up", MissRay)}
    \cup (IF w.action_menu > 0
          THEN {[InWindow(<<0, 0>>, "just", MissRay) EXCEPT !.button = ActionButton(k)]
                    : k \in {"Possession", "Move"}}
          ELSE {InWindow(<<0, 0>>, "just", FoxRay(w))})
    \cup (IF w.possession_mode.is_active THEN {Keyed(old, ks, 0) : ks \in FoxKeys} ELSE {})

NewFrameFox ==
    \E in \in FoxInputs(world, input) :
        /\ moves < MaxFoxFrames
        /\ moves' = moves + 1
        /\ BeginFrame(in, FoxSystems)
        /\ pre' = world
        /\ prev' = [left |-> input.left, cursor |-> input.cursor, pos |-> input.pos,
                    possessed |-> prev.began, began |-> world.possession_mode.is_active,
                    keys |-> input.keys]

\* Between two frames the asset server finishes loading Fox.glb, and then
\* the scene spawner instantiates the scene
AssetStep ==
    /\ todo = <<>>
    /\ world.anim.assets # "spawned"
    /\ world' = [world EXCEPT !.anim.assets = IF @ = "loading" THEN "loaded" ELSE "spawned"]
    /\ UNCHANGED <<input, todo, pre, moves, prev, entry_camera, rayVars, setVars>>

NextFox ==
    \/ NewFrameFox
    \/ AssetStep
    \/ RunBlockClickHandler
    \/ RunHandleFoxActionButtons
    \/ RunFoxFollowCursor
    \/ RunPlayFoxAnimation
    \/ RunExitPossessionMode
    \/ RunFoxPossessionMovement
    \/ ApplyDeferredStep

SpecFox == Init /\ [][NextFox]_vars

\* ------------------------------------------------------------------------
\* The weather (weather.rs)
\* ------------------------------------------------------------------------

RAIN_SPAWN_RATE == 150

\* time.delta_secs() of a frame, in ms
RainDeltas == {4, 10, 16, 20}

\* The rainy time explored, in ms
MaxRainMs == 60

\* time_until_change is drawn at random from ranges of tens of seconds;
\* whether it has run out in this frame is an input of the frame
update_weather(w, expires) ==
    IF expires THEN [w EXCEPT !.weather.is_raining = ~@] ELSE w

\* (RAIN_SPAWN_RATE * time.delta_secs()) as i32
drops_to_spawn(dt) == (RAIN_SPAWN_RATE * dt) \div 1000

spawn_rain(w, dt) ==
    IF ~w.weather.is_raining THEN [w EXCEPT !.rain = NoRain]
    ELSE [w EXCEPT !.rain = [run_ms |-> @.run_ms + dt,
                             run_drops |-> @.run_drops + drops_to_spawn(dt)]]

\* A frame of the weather systems, which are not ordered among themselves
WeatherFrame ==
    /\ todo = <<>>
    /\ \E dt \in RainDeltas, expires \in BOOLEAN, weather_first \in BOOLEAN :
          LET w == IF weather_first
                   THEN spawn_rain(update_weather(world, expires), dt)
                   ELSE update_weather(spawn_rain(world, dt), expires)
          IN  /\ w.rain.run_ms <= MaxRainMs
              /\ world' = w
    /\ UNCHANGED <<input, todo, pre, moves, prev, entry_camera, rayVars, setVars>>

SpecRain == Init /\ [][WeatherFrame]_vars

\* The calls of ray_box_intersection, the game at rest
InitRay ==
    /\ GameInit
    /\ SetInit /\ file = NoFile
    /\ RayInit

SpecRay == InitRay /\ [][RayBoxCall]_vars

\* The settings menu, the game at rest
InitSettings ==
    /\ GameInit
    /\ ray_query = NoQuery /\ ray_result = Pending
    /\ SetInit

SpecSettings == InitSettings /\ [][NextSettings]_vars

\* ------------------------------------------------------------------------
\* Claims on the settings file (SpecSettings)
\* ------------------------------------------------------------------------

\* The members of a text that carry field k
MembersOf(text, k) == {i \in 1..Len(text.members) : text.members[i].key = k}

\* The file can be read and parsed: it exists, is a JSON object, and gives
\* each of the four fields exactly once, as a number
Parseable(f) ==
    /\ f.exists
    /\ f.text.object
    /\ \A k \in FieldSet :
        /\ Cardinality(MembersOf(f.text, k)) = 1
        /\ \A i \in MembersOf(f.text, k) : f.text.members[i].val.num

\* The value the file gives field k
FileValue(f, k) == ParseF32(f.text.members[CHOOSE i \in MembersOf(f.text, k) : TRUE].val)

\* C1: at startup the settings are the four values of the settings file when
\* it can be read and parsed, and otherwise exactly the hardcoded defaults
\* (3, 20, 10000, 50000 thousandths): never a mix of the two.
C1_StartupSettings ==
    last_op = <<"startup">> =>
        IF Parseable(file)
        THEN \A k \in FieldSet : settings[k] = FileValue(file, k)
        ELSE settings = DefaultSettings

\* C1 witness: a startup from a parseable file none of whose values is the
\* default
C1_Witness ==
    /\ last_op = <<"startup">>
    /\ Parseable(file)
    /\ \A k \in FieldSet : settings[k] # DefaultSettings[k]

\* C2: a LoadSettings press after a successful SaveSettings press (no failed
\* save in between) sets the settings to exactly the four saved values,
\* whatever Up/Down presses were made in between.
C2_SaveLoadRoundTrip ==
    (last_op = <<"LoadSettings">> /\ saved.valid) => settings = saved.value

\* C2 witness: a load after a save with Up/Down presses in between
C2_Witness ==
    /\ last_op = <<"LoadSettings">>
    /\ saved.valid
    /\ saved.touched
    /\ saved.value # DefaultSettings

\* ------------------------------------------------------------------------
\* Claims on ray_box_intersection (SpecRay)
\* ------------------------------------------------------------------------

BoxMin(q) == [i \in Axes |-> q.center[i] - q.half[i]]
BoxMax(q) == [i \in Axes |-> q.center[i] + q.half[i]]

\* The point origin + t * dir lies in the closed box (t = n/d, d > 0)
InBoxAt(q, t) ==
    \A i \in Axes :
        /\ BoxMin(q)[i] * t.d <= q.ray.origin[i] * t.d + t.n * q.ray.dir[i]
        /\ q.ray.origin[i] * t.d + t.n * q.ray.dir[i] <= BoxMax(q)[i] * t.d

\* The set of t >= 0 whose point lies in the box is a closed interval; its
\* least element, when it has one, is 0 or the crossing of a face plane.
Crossings(q) ==
    {Zero} \cup {Fin(b - q.ray.origin[i], q.ray.dir[i]) :
                   <<i, b>> \in {<<j, c>> \in Axes \X ({BoxMin(q)[a] : a \in Axes}
                                                     \cup {BoxMax(q)[a] : a \in Axes}) :
                                    /\ q.ray.dir[j] # 0
                                    /\ c \in {BoxMin(q)[j], BoxMax(q)[j]}}}
Hits(q) == {t \in Crossings(q) : t.n >= 0 /\ InBoxAt(q, t)}
MeetsBox(q) == Hits(q) # {}
IsEntry(q, t) ==
    \E e \in Hits(q) : (\A u \in Hits(q) : ~FLt(u, e)) /\ e.n * t.d = t.n * e.d

\* The line of the ray meets the box only behind the origin
BoxBehind(q) ==
    /\ ~MeetsBox(q)
    /\ \E t \in {Fin(b - q.ray.origin[i], q.ray.dir[i]) :
                   <<i, b>> \in {<<j, c>> \in Axes \X ({BoxMin(q)[a] : a \in Axes}
                                                     \cup {BoxMax(q)[a] : a \in Axes}) :
                                    q.ray.dir[j] # 0}} : InBoxAt(q, t)

\* A zero direction component whose origin coordinate lies on a face plane
\* of that axis: (bound - origin) * inv_dir is 0 * inf there
Grazing(q) ==
    \E i \in Axes : q.ray.dir[i] = 0 /\ q.ray.origin[i] \in {BoxMin(q)[i], BoxMax(q)[i]}

\* C7: Some(d) exactly when the ray meets the closed box, d >= 0 the
\* parameter of the entry point (0 from inside), None otherwise.
C7_ExactlyWhenMeets ==
    ray_result.done =>
        /\ ray_result.out.some <=> MeetsBox(ray_query)
        /\ ray_result.out.some =>
             /\ ray_result.out.t.k = "fin"
             /\ ray_result.out.t.n >= 0
             /\ IsEntry(ray_query, ray_result.out.t)

\* What ray_box_intersection does give: Some(d) only when the ray meets the
\* box, with d >= 0 the parameter of the entry point (0 when the origin is
\* inside); a box behind the origin gives None; and a ray that meets the box
\* gives Some(d) unless a zero direction component has its origin coordinate
\* on a face plane.
C7_SoundAndCompleteOffFaces ==
    ray_result.done =>
        /\ ray_result.out.some =>
             /\ MeetsBox(ray_query)
             /\ ray_result.out.t.k = "fin"
             /\ ray_result.out.t.n >= 0
             /\ IsEntry(ray_query, ray_result.out.t)
             /\ InBoxAt(ray_query, Zero) => ray_result.out.t.n = 0
        /\ BoxBehind(ray_query) => ~ray_result.out.some
        /\ (MeetsBox(ray_query) /\ ~Grazing(ray_query)) => ray_result.out.some

\* A ray from outside the box that enters it at d > 0
C7_Witness ==
    /\ ray_result.done
    /\ ray_result.out.some
    /\ ray_result.out.t.n > 0
    /\ ~InBoxAt(ray_query, Zero)


\* ------------------------------------------------------------------------
\* Claims on the clicks and buttons of the game (Spec)
\* ------------------------------------------------------------------------

\* The frame is over: its systems have run and its commands are applied
FrameDone == todo = <<>>

\* A click on the field: the left button just pressed over no Button, with
\* a cursor ray
FieldClick(in) == in.left = "just" /\ in.button.kind = "none" /\ HasRay(in)

\* The selectable blocks the ray passes through (the rays of the model come
\* straight down from above)
BlocksUnder(ray) ==
    {b \in Blocks : /\ Selectable(b)
                    /\ \A i \in {1, 3} : /\ BlockPos(b)[i] - BLOCK_HALF_SIZE <= ray.origin[i]
                                         /\ ray.origin[i] <= BlockPos(b)[i] + BLOCK_HALF_SIZE}
\* Whether the ray passes through the fox standing at p
FoxUnder(ray, p) ==
    \A i \in {1, 3} : p[i] - FOX_HALF_SIZE <= ray.origin[i] /\ ray.origin[i] <= p[i] + FOX_HALF_SIZE

\* The click of C3: a field click that block_click_handler is about to
\* handle, the ray through selectable block b and not through the fox,
\* move mode inactive, no item selected
BlockClickOf(b) ==
    /\ Ready("block_click_handler")
    /\ FieldClick(input)
    /\ BlocksUnder(input.ray) = {b}
    /\ ~FoxUnder(input.ray, world.fox.global)
    /\ ~world.move_mode.is_active
    /\ world.selected_slot.item_type = "None"

\* C3: block_click_handler handling a click on a selectable
\* block, with move mode inactive and no item selected, leaves that block
\* with a timer whose time is 0.
C3_BlockTimerReset ==
    [][\A b \in Blocks :
          (BlockClickOf(b) /\ todo' = Tail(todo))
              => (b \in DOMAIN world'.timers /\ world'.timers[b] = 0)]_vars

\* C8: at the end of a frame in which the Box button was pressed, if some
\* slot was empty when the frame began then the empty slot of lowest index
\* now holds the fox, every other slot is as it was and the fox is hidden;
\* if none was empty then every slot is as it was, the fox's visibility is
\* as it was and the feedback is the slots-full message.
C8_BoxLowestEmptySlot ==
    (FrameDone /\ input.button.kind = "Box") =>
        IF \E i \in Slots : pre.item_slots[i] = "None"
        THEN \E i \in Slots :
                /\ pre.item_slots[i] = "None"
                /\ \A j \in 0..(i - 1) : pre.item_slots[j] # "None"
                /\ world.item_slots[i] = "Fox"
                /\ \A j \in Slots \ {i} : world.item_slots[j] = pre.item_slots[j]
                /\ world.fox.visibility = "Hidden"
        ELSE /\ world.item_slots = pre.item_slots
             /\ world.fox.visibility = pre.fox.visibility
             /\ world.feedback = "slots_full"

\* C8 witnesses: the Box button pressed with the first slot taken and a
\* later one empty, and pressed with every slot taken
C8_Witness ==
    /\ FrameDone /\ input.button.kind = "Box"
    /\ pre.item_slots[0] = "Fox"
    /\ \E i \in Slots : pre.item_slots[i] = "None"
C8_WitnessFull ==
    /\ FrameDone /\ input.button.kind = "Box"
    /\ \A i \in Slots : pre.item_slots[i] = "Fox"

\* The cursor ray of the frame runs in no face plane of a block it meets
OffFaces(ray) ==
    \A b \in BlocksUnder(ray) : \A i \in {1, 3} :
        /\ ray.origin[i] # BlockPos(b)[i] - BLOCK_HALF_SIZE
        /\ ray.origin[i] # BlockPos(b)[i] + BLOCK_HALF_SIZE

\* C9: at the end of a frame that began in move mode with the
\* fox held and whose click passes through a selectable block (and runs
\* in no face plane of it), the fox stands on that block at
\* FOX_INITIAL_HEIGHT and move mode is over.
C9_MoveModePlacing ==
    (/\ FrameDone
     /\ pre.move_mode.is_active /\ pre.move_mode.is_holding
     /\ FieldClick(input)
     /\ BlocksUnder(input.ray) # {} /\ OffFaces(input.ray))
        => /\ \E b \in BlocksUnder(input.ray) :
                world.fox.translation = Vec3(BlockPos(b)[1], FOX_INITIAL_HEIGHT, BlockPos(b)[3])
           /\ world.move_mode = [is_active |-> FALSE, is_holding |-> FALSE,
                                 fox_entity |-> None(FoxE)]

\* C10: at the end of every frame through which move mode kept its value,
\* each highlight overlay has the move-mode colour if move mode is active and
\* the normal colour if not.
C10_HighlightTracksMoveMode ==
    (FrameDone /\ pre.move_mode.is_active = world.move_mode.is_active) =>
        \A h \in world.highlights :
            h.color = IF world.move_mode.is_active
                      THEN HIGHLIGHT_COLOR_MOVE ELSE HIGHLIGHT_COLOR_NORMAL


\* ------------------------------------------------------------------------
\* Claims on the camera and possession mode (SpecCamera)
\* ------------------------------------------------------------------------

FreeCameraSystems ==
    {"camera_zoom", "camera_keyboard_rotation", "camera_keyboard_pan", "camera_drag_rotation"}

\* System s runs in this step
Runs(s) == Ready(s) /\ todo' = Tail(todo)

\* C4: while possession mode is active, a run of camera_zoom,
\* camera_keyboard_rotation, camera_keyboard_pan or camera_drag_rotation
\* leaves the camera's transform as it was whatever the input, and a run of
\* fox_possession_movement with W held leaves the camera as it was and
\* moves the fox.
C4_FreeCameraIdleInPossession ==
    [][world.possession_mode.is_active =>
          /\ \A s \in FreeCameraSystems : Runs(s) => world'.camera = world.camera
          /\ (Runs("fox_possession_movement") /\ "KeyW" \in input.keys)
                => /\ world'.camera = world.camera
                   /\ world'.fox.translation # world.fox.translation]_vars

\* C4 witness: a frame that began in possession mode, with W and an arrow
\* key held and the wheel turned, in which every system has run and the fox
\* has moved
C4_Witness ==
    /\ todo = <<"apply_deferred">>
    /\ prev.began /\ world.possession_mode.is_active
    /\ input.keys = {"KeyW", "ArrowLeft"} /\ input.wheel = 1
    /\ world.fox.translation # world.fox.global

\* C5: exit_possession_mode handling Escape while possession
\* mode is active leaves the camera with the transform it had when
\* possession mode was entered.
C5_EscapeRestoresEntryCamera ==
    [][(/\ Runs("exit_possession_mode")
        /\ world.possession_mode.is_active
        /\ "Escape" \in input.just_keys)
          => (entry_camera.some /\ world'.camera = entry_camera.v)]_vars

\* C6: in a frame that, like the frame before it, began in
\* possession mode and has the left button down with the cursor in the
\* window, a run of possession_camera_rotation turns the camera by
\* -dx * mouse_sensitivity of yaw and -dy * mouse_sensitivity of pitch,
\* (dx, dy) the cursor's move since the frame before.
C6_PossessionDragRotates ==
    [][(/\ Runs("possession_camera_rotation")
        /\ world.possession_mode.is_active
        /\ prev.possessed /\ prev.began
        /\ prev.left # "up" /\ prev.cursor = "in"
        /\ input.left # "up" /\ input.cursor = "in")
          => /\ world'.camera.yaw =
                  WrapYaw(world.camera.yaw
                          - (input.pos[1] - prev.pos[1]) * settings.mouse_sensitivity)
             /\ world'.camera.pitch =
                  Clamp(world.camera.pitch
                        - (input.pos[2] - prev.pos[2]) * settings.mouse_sensitivity,
                        -CAMERA_PITCH_LIMIT, CAMERA_PITCH_LIMIT)]_vars

\* ------------------------------------------------------------------------
\* Claims on the clicks, the modes and the highlight (Spec), continued
\* ------------------------------------------------------------------------

\* C11: a run of block_click_handler in a frame whose left click has a UI
\* Button Pressed leaves move mode, the selected slot, the item slots, the
\* fox, the timers, the feedback text, the action menu and the queued
\* commands as they were.
C11_PressedButtonBlocksClick ==
    [][(/\ Runs("block_click_handler")
        /\ input.left = "just"
        /\ input.button.kind # "none")
          => world' = world]_vars

\* C11 witness: the end of a frame whose click pressed the Move button of an
\* open action menu, with the cursor ray through a selectable block
C11_Witness ==
    /\ FrameDone
    /\ input.left = "just" /\ input.button.kind = "Move"
    /\ HasRay(input) /\ BlocksUnder(input.ray) # {}
    /\ pre.action_menu > 0

\* ------------------------------------------------------------------------
\* Claims on the settings menu and its buttons (SpecSettings)
\* ------------------------------------------------------------------------

\* C12: a run of toggle_settings_menu in a frame with Escape just pressed
\* flips is_open, and between frames (commands applied) there is exactly
\* one SettingsMenu root when is_open is true and none when it is false.
C12_MenuMatchesIsOpen ==
    /\ [](menu.stage = "idle" => menu.roots = IF menu.is_open THEN 1 ELSE 0)
    /\ [][(menu.stage = "idle" /\ menu'.stage = "ran" /\ menu'.escape)
            => menu'.is_open = ~menu.is_open]_vars

\* C12 witness: the menu closed again by a second Escape press, after
\* buttons of the open menu were pressed
C12_Witness ==
    /\ menu.stage = "idle" /\ menu.escape
    /\ ~menu.is_open
    /\ presses > 0

\* The Up/Down buttons: button, field, direction; and each field's step and
\* range, in thousandths
UpDownButtons ==
    {<<"MouseSensitivityUp", "mouse_sensitivity", 1>>,
     <<"MouseSensitivityDown", "mouse_sensitivity", -1>>,
     <<"KeyboardSensitivityUp", "keyboard_sensitivity", 1>>,
     <<"KeyboardSensitivityDown", "keyboard_sensitivity", -1>>,
     <<"MovementSpeedUp", "movement_speed", 1>>,
     <<"MovementSpeedDown", "movement_speed", -1>>,
     <<"ZoomSpeedUp", "zoom_speed", 1>>,
     <<"ZoomSpeedDown", "zoom_speed", -1>>}
StepOf ==
    [mouse_sensitivity |-> 1, keyboard_sensitivity |-> 10,
     movement_speed |-> 5000, zoom_speed |-> 10000]
LowOf ==
    [mouse_sensitivity |-> 1, keyboard_sensitivity |-> 10,
     movement_speed |-> 5000, zoom_speed |-> 10000]
HighOf ==
    [mouse_sensitivity |-> 20, keyboard_sensitivity |-> 100,
     movement_speed |-> 100000, zoom_speed |-> 200000]
InRange(st) == \A k \in FieldSet : LowOf[k] <= st[k] /\ st[k] <= HighOf[k]

\* C13: a press of an Up/Down button on in-range settings leaves every
\* other setting as it was and moves its own by the fixed step, clamped to
\* the range: the settings stay in range, and Up at the maximum or Down at
\* the minimum changes nothing.
C13_StepAndClamp ==
    [][\A t \in UpDownButtons :
          (presses' = presses + 1 /\ last_op' = <<t[1]>> /\ InRange(settings))
            => LET k == t[2]
                   want == settings[k] + t[3] * StepOf[k]
               IN  /\ InRange(settings')
                   /\ \A j \in FieldSet \ {k} : settings'[j] = settings[j]
                   /\ settings'[k] = IF want > HighOf[k] THEN HighOf[k]
                                     ELSE IF want < LowOf[k] THEN LowOf[k] ELSE want
                   /\ (t[3] = 1 /\ settings[k] = HighOf[k]) => settings' = settings
                   /\ (t[3] = -1 /\ settings[k] = LowOf[k]) => settings' = settings]_vars

\* C13 witness: MouseSensitivityUp as the first press of a game that
\* started with mouse_sensitivity at its maximum
C13_Witness ==
    /\ presses = 1
    /\ last_op = <<"MouseSensitivityUp">>
    /\ settings.mouse_sensitivity = HighOf["mouse_sensitivity"]

\* Down pressed down to the minimum and once more
C13_WitnessLow ==
    /\ presses = 3
    /\ last_op = <<"MouseSensitivityDown">>
    /\ settings.mouse_sensitivity = LowOf["mouse_sensitivity"]
    /\ \A k \in FieldSet \ {"mouse_sensitivity"} : settings[k] = DefaultSettings[k]
    /\ ~saved.valid

\* ------------------------------------------------------------------------
\* Claims on the possessed fox (SpecFox)
\* ------------------------------------------------------------------------

\* The frame began with the AnimationPlayer and the FoxAnimationState there
\* and kept possession mode and the dash as they were
SteadyFoxFrame ==
    /\ FrameDone
    /\ pre.anim.assets = "spawned" /\ pre.anim.has_state
    /\ pre.possession_mode.is_active = world.possession_mode.is_active
    /\ pre.dash_state.is_dashing = world.dash_state.is_dashing

\* C14: once the clips are loaded (and the player and the animation state
\* are there), after every frame that kept possession mode and the dash as
\* they were the fox plays the animation of its movement state: 2 moving
\* and dashing in possession mode, 1 moving, 0 idle.
C14_AnimationFollowsMovement ==
    SteadyFoxFrame => world.anim.playing = Some(TargetAnimation(world, input))

\* Once an animation has been started, the one playing after such a
\* frame is the one of the movement state
C14_FollowsOncePlaying ==
    (SteadyFoxFrame /\ world.anim.playing.some)
        => world.anim.playing = Some(TargetAnimation(world, input))

\* The movement keys released between the frame before and this one
ReleasedKeys == (prev.keys \ input.keys) \cap {"KeyW", "KeyS", "KeyA", "KeyD"}
JustPressedKeys == input.just_keys \cap {"KeyW", "KeyS", "KeyA", "KeyD"}

\* C15: in possession mode, the second press of the same movement key
\* less than dash_timeout after its first press starts the dash, and after
\* a frame in which a movement key was released (and none was pressed anew)
\* the fox does not dash.
C15_DashStartAndCancel ==
    (FrameDone /\ pre.possession_mode.is_active /\ world.possession_mode.is_active) =>
        /\ \A k \in JustPressedKeys :
              (/\ JustPressedKeys = {k}
               /\ pre.dash_state.last_key = Some(k)
               /\ pre.dash_state.since_tap.some
               /\ pre.dash_state.since_tap.v + DeltaMs < DashTimeoutMs)
                  => world.dash_state.is_dashing
        /\ (ReleasedKeys # {} /\ JustPressedKeys = {}) => ~world.dash_state.is_dashing

\* The dash starts on the double tap (the first half of C15 alone)
C15_DoubleTapStartsDash ==
    (FrameDone /\ pre.possession_mode.is_active /\ world.possession_mode.is_active) =>
        \A k \in JustPressedKeys :
            (/\ JustPressedKeys = {k}
             /\ pre.dash_state.last_key = Some(k)
             /\ pre.dash_state.since_tap.some
             /\ pre.dash_state.since_tap.v + DeltaMs < DashTimeoutMs)
                => world.dash_state.is_dashing
C15_DoubleTapReached ==
    /\ FrameDone /\ pre.possession_mode.is_active /\ world.possession_mode.is_active
    /\ JustPressedKeys = {"KeyW"}
    /\ pre.dash_state.last_key = Some("KeyW")
    /\ ~pre.dash_state.is_dashing
    /\ world.dash_state.is_dashing

\* ------------------------------------------------------------------------
\* Claims on the clicks, the modes and the highlight (Spec), continued
\* ------------------------------------------------------------------------

\* The three systems that act on a click, and the orders they can run in
ClickSystems == {"block_click_handler", "handle_fox_action_buttons", "handle_item_slot_click"}
ClickOrders == {o \in [1..3 -> ClickSystems] : {o[i] : i \in 1..3} = ClickSystems}

RunClickSystem(w, in, sem, vp_ok, sys) ==
    CASE sys = "block_click_handler" -> block_click_handler(w, in, sem, vp_ok)
      [] sys = "handle_fox_action_buttons" -> handle_fox_action_buttons(w, in)
      [] sys = "handle_item_slot_click" -> handle_item_slot_click(w, in)

\* The world after the three systems in the order o and the commands
AfterClickSystems(w, in, sem, vp_ok, o) ==
    ApplyDeferred(
        RunClickSystem(
            RunClickSystem(RunClickSystem(w, in, sem, vp_ok, o[1]), in, sem, vp_ok, o[2]),
            in, sem, vp_ok, o[3]))

\* C16: for the world a frame began with and the frame's input, the three
\* click systems leave the same world (the commands applied) in each of
\* their six orders.
C16_ClickSystemsCommute ==
    FrameDone =>
        \A sem \in FloatSems, vp_ok \in BOOLEAN :
            LET registered == AfterClickSystems(AdvanceTime(pre), input, sem, vp_ok,
                                                  <<"handle_item_slot_click",
                                                    "block_click_handler",
                                                    "handle_fox_action_buttons">>)
            IN  \A o \in ClickOrders :
                    AfterClickSystems(AdvanceTime(pre), input, sem, vp_ok, o) = registered

\* C16 witness: a frame with the Move button pressed over a block, begun
\* with an item selected, so that the click on the block would have acted
C16_Witness ==
    /\ FrameDone
    /\ input.left = "just" /\ input.button.kind = "Move"
    /\ HasRay(input) /\ BlocksUnder(input.ray) # {}
    /\ pre.selected_slot.item_type # "None"
    /\ world.move_mode.is_active

\* ------------------------------------------------------------------------
\* Claims on the rain (SpecRain)
\* ------------------------------------------------------------------------

\* C17: over a run of rainy frames of T seconds in all, the drops spawned
\* differ from RAIN_SPAWN_RATE * T by less than one drop (in thousandths
\* of a drop: run_ms is in ms).
C17_RainRate ==
    LET got == 1000 * world.rain.run_drops
        due == RAIN_SPAWN_RATE * world.rain.run_ms
    IN  got - due < 1000 /\ due - got < 1000

\* The highlight after a frame
OneHighlightOnHoveredBlock ==
    /\ Cardinality(world.highlighted) <= 1
    /\ Cardinality(world.highlights) <= 1
    /\ (world.highlights # {}) <=> (world.highlighted # {})
    /\ \A b \in world.highlighted :
          /\ \A h \in world.highlights : h.pos = BlockPos(b)
          /\ b \in Blocks /\ Selectable(b)
          /\ HasRay(input) => b \in BlocksUnder(input.ray)
    /\ (HasRay(input) /\ BlocksUnder(input.ray) # {}) => world.highlighted # {}
    /\ (input.cursor = "out" \/ (HasRay(input) /\ BlocksUnder(input.ray) = {}))
          => (world.highlighted = {} /\ world.highlights = {})

C18_HoldsOffFaces ==
    (FrameDone /\ (HasRay(input) => OffFaces(input.ray))) => OneHighlightOnHoveredBlock

\* C18 witness: the cursor went from one selectable block to another
C18_Witness ==
    /\ FrameDone
    /\ HasRay(input)
    /\ pre.highlighted # {}
    /\ world.highlighted # {}
    /\ world.highlighted # pre.highlighted
    /\ \E h \in world.highlights : \A b \in world.highlighted : h.pos = BlockPos(b)

\* C19: in move mode with the fox held, block_click_handler on a click
\* whose ray passes through no selectable block changes the feedback text
\* to the only-selectable message and nothing else: move mode, the fox,
\* the selected slot, the item slots and the queued commands (so the action
\* menu) stay as they are.
C19_MissInMoveMode ==
    [][(/\ Runs("block_click_handler")
        /\ world.move_mode.is_active /\ world.move_mode.is_holding
        /\ FieldClick(input)
        /\ BlocksUnder(input.ray) = {})
          => /\ world' = [world EXCEPT !.feedback = "only_selectable"]
             /\ world'.move_mode = [is_active |-> TRUE, is_holding |-> TRUE,
                                    fox_entity |-> Some(FoxE)]]_vars

\* C19 witness: a frame begun in move mode with another feedback text, its
\* click over no selectable block
C19_Witness ==
    /\ FrameDone
    /\ pre.move_mode.is_active /\ pre.move_mode.is_holding
    /\ FieldClick(input) /\ BlocksUnder(input.ray) = {}
    /\ pre.feedback # "only_selectable"
    /\ world.feedback = "only_selectable"
    /\ world.move_mode = pre.move_mode

\* The three fields of FoxMoveMode agree
MoveModeAgrees(m) == (m.is_active <=> m.is_holding) /\ (m.is_holding <=> m.fox_entity.some)

\* C20: in every state is_active, is_holding and fox_entity agree; a step
\* that changes FoxMoveMode is either handle_fox_action_buttons with the
\* Move button pressed, which sets all three, or block_click_handler on a
\* click over a selectable block in move mode, which clears all three.
C20_MoveModeFieldsAgree ==
    /\ [](MoveModeAgrees(world.move_mode))
    /\ [][world'.move_mode # world.move_mode =>
            \/ /\ Runs("handle_fox_action_buttons")
               /\ input.button.kind = "Move"
               /\ world'.move_mode = [is_active |-> TRUE, is_holding |-> TRUE,
                                      fox_entity |-> Some(FoxE)]
            \/ /\ Runs("block_click_handler")
               /\ FieldClick(input)
               /\ world.move_mode.is_active
               /\ BlocksUnder(input.ray) # {}
               /\ world'.move_mode = [is_active |-> FALSE, is_holding |-> FALSE,
                                      fox_entity |-> None(FoxE)]]_vars

\* C20 witness: move mode, set by the Move button in an earlier frame, has
\* been cleared by the click of this frame
C20_Witness ==
    /\ FrameDone
    /\ pre.move_mode = [is_active |-> TRUE, is_holding |-> TRUE, fox_entity |-> Some(FoxE)]
    /\ FieldClick(input)
    /\ world.move_mode = [is_active |-> FALSE, is_holding |-> FALSE, fox_entity |-> None(FoxE)]

\* C21: in no state are FoxMoveMode.is_active and PossessionMode.is_active
\* both true.
C21_MoveAndPossessionExclusive ==
    ~(world.move_mode.is_active /\ world.possession_mode.is_active)

\* C22: in every state at most one item slot holds the fox.
C22_OneSlotHoldsFox ==
    Cardinality({i \in Slots : world.item_slots[i] = "Fox"}) <= 1

====
